---- MODULE Spec2Model ----
(***************************************************************************)
(* Model of scripts/clean_blocklist.py: the blocklist cleaner.             *)
(*                                                                         *)
(* Text is modelled as sequences of one-character strings, so that         *)
(* strip(), lower(), rstrip("."), splitlines() and "\n".join() are         *)
(* computed as the code computes them.  The network (the DoH endpoints and *)
(* the HTTP origins) is an environment fixed at the start of a run and     *)
(* read by _query_doh and responds.                                        *)
(***************************************************************************)
EXTENDS Integers, Sequences, FiniteSets, TLC

VARIABLES
    source,          \* the file at BLOCKLIST_PATH: [exists, text]
    net,             \* the network: [zone, web]
    pc,              \* position of main(): "load", "loop", "call", "resolving",
                     \*   "ret", "done", "failed", "crashed"
    raw_lines,       \* main: raw_lines
    pos,             \* main: number of lines of raw_lines already processed
    cleaned_lines,   \* main: cleaned_lines
    removed,         \* main: removed
    skipped_checks,  \* main: skipped_checks
    cache,           \* main: cache (entry key -> verdict)
    resCache,        \* _RESOLUTION_CACHE (domain key -> ResolutionResult)
    stack,           \* the active resolve_domain invocations, outermost first
    call,            \* the pending/returned top-level resolve_domain call of is_entry_live
    output,          \* the file at OUTPUT_FILE: [exists, text]
    rc,              \* main's return value: <<>> while running, <<0>> or <<1>>
    dohLog,          \* history: every DoH query sent, <<endpoint, record type, name>>
    httpLog,         \* history: every responds(url) call with its requests and result
    resolveLog,      \* history: every resolve_domain invocation and how it was answered
    liveLog,         \* history: every is_entry_live call with its evidence and result
    runs             \* history: the earlier runs of main on this input, with their results

vars == <<source, net, pc, raw_lines, pos, cleaned_lines, removed, skipped_checks,
          cache, resCache, stack, call, output, rc, dohLog, httpLog, resolveLog,
          liveLog, runs>>

(***************************************************************************)
(* Bounds of the model.                                                    *)
(***************************************************************************)
MaxLines == 2

\* the longest CNAME chain of the networks: names n0.x .. n<MaxHops>.x
MaxHops == 7

(***************************************************************************)
(* Text helpers (Python str methods).                                      *)
(***************************************************************************)
NL == "\n"

Whitespace == {" ", "\t"}

LowerChar(c) ==
    CASE c = "A" -> "a"
      [] c = "B" -> "b"
      [] c = "C" -> "c"
      [] c = "D" -> "d"
      [] c = "P" -> "p"
      [] c = "N" -> "n"
      [] c = "X" -> "x"
      [] OTHER -> c

Lower(s) == [i \in 1..Len(s) |-> LowerChar(s[i])]

RECURSIVE LStrip(_, _)
LStrip(s, chars) ==
    IF s # <<>> /\ Head(s) \in chars THEN LStrip(Tail(s), chars) ELSE s

RECURSIVE RStrip(_, _)
RStrip(s, chars) ==
    IF s # <<>> /\ s[Len(s)] \in chars
    THEN RStrip(SubSeq(s, 1, Len(s) - 1), chars)
    ELSE s

Strip(s) == RStrip(LStrip(s, Whitespace), Whitespace)

RStripDot(s) == RStrip(s, {"."})

StartsWith(s, p) == Len(s) >= Len(p) /\ SubSeq(s, 1, Len(p)) = p

Contains(s, p) == \E i \in 1..(Len(s) - Len(p) + 1) : SubSeq(s, i, i + Len(p) - 1) = p

Chars(s) == {s[i] : i \in 1..Len(s)}

\* index of the first character of s that is in chars, Len(s)+1 when there is none
FirstIn(s, chars) ==
    IF \E i \in 1..Len(s) : s[i] \in chars
    THEN CHOOSE i \in 1..Len(s) : s[i] \in chars /\ \A j \in 1..(i - 1) : s[j] \notin chars
    ELSE Len(s) + 1

RECURSIVE SplitLines(_)
SplitLines(text) ==
    IF text = <<>> THEN <<>>
    ELSE LET i == FirstIn(text, {NL})
         IN  <<SubSeq(text, 1, i - 1)>> \o SplitLines(SubSeq(text, i + 1, Len(text)))

RECURSIVE JoinLines(_)
JoinLines(lines) ==
    IF lines = <<>> THEN <<>>
    ELSE IF Len(lines) = 1 THEN lines[1]
    ELSE lines[1] \o <<NL>> \o JoinLines(Tail(lines))

(***************************************************************************)
(* urllib.parse.urlparse, as far as candidate_urls and is_full_url read    *)
(* it: the scheme and the netloc of the parsed text.                       *)
(***************************************************************************)
Letters == {"a", "b", "c", "d", "h", "p", "s", "t", "w", "x", "A", "B", "C", "D", "P"}

SchemeChars == Letters \cup {"0", "1", "2", "+", "-", "."}

\* i is the index of the first ":" of s (Len(s)+1 when s has none)
SplitScheme(s, i) ==
    IF i <= Len(s) /\ i > 1 /\ s[1] \in Letters /\ \A j \in 1..(i - 1) : s[j] \in SchemeChars
    THEN [scheme |-> Lower(SubSeq(s, 1, i - 1)), rest |-> SubSeq(s, i + 1, Len(s))]
    ELSE [scheme |-> <<>>, rest |-> s]

\* j is the index of the first of "/?#" after the leading "//" of rest
SplitNetloc(scheme, after, j) ==
    [scheme |-> scheme, netloc |-> SubSeq(after, 1, j - 1),
     path |-> SubSeq(after, j, Len(after))]

AfterSlashes(scheme, after) == SplitNetloc(scheme, after, FirstIn(after, {"/", "?", "#"}))

ParseRest(p) ==
    IF StartsWith(p.rest, <<"/", "/">>)
    THEN AfterSlashes(p.scheme, SubSeq(p.rest, 3, Len(p.rest)))
    ELSE [scheme |-> p.scheme, netloc |-> <<>>, path |-> p.rest]

urlparse(s) == ParseRest(SplitScheme(s, FirstIn(s, {":"})))

(***************************************************************************)
(* Entry classifier.                                                       *)
(***************************************************************************)
SchemeSep == <<":", "/", "/">>

HTTP == <<"h", "t", "t", "p", ":", "/", "/">>

HTTPS == <<"h", "t", "t", "p", "s", ":", "/", "/">>

WWW == <<"w", "w", "w", ".">>

\* the backquote of the source's set cannot be written in a TLA+ string
InvalidChars == {" ", "\t", "\"", "'", "<", ">", "|", "(", ")", "{", "}", "[", "]"}

\* bool(parsed.scheme and parsed.netloc)
SchemeAndNetloc(parsed) == parsed.scheme # <<>> /\ parsed.netloc # <<>>

CandidatesOf(entry) ==
    IF entry = <<>> THEN <<>>
    ELSE IF Contains(entry, SchemeSep)
    THEN IF SchemeAndNetloc(urlparse(entry)) THEN <<entry>> ELSE <<>>
    ELSE IF StartsWith(entry, <<"/">>) \/ InvalidChars \cap Chars(entry) # {}
    THEN <<>>
    ELSE IF "." \notin Chars(entry)
    THEN <<>>
    ELSE <<HTTP \o entry, HTTPS \o entry>>

candidate_urls(entry) == CandidatesOf(Strip(entry))

\* faulty variant: the test for "://" is turned around
is_full_url_Inverted(entry) ==
    ~Contains(entry, SchemeSep) /\ SchemeAndNetloc(urlparse(entry))

is_full_url(entry) ==
    IF ~Contains(entry, SchemeSep) THEN FALSE ELSE SchemeAndNetloc(urlparse(entry))

(***************************************************************************)
(* Names, addresses and the network environment.                           *)
(***************************************************************************)
AB == <<"a", ".", "b">>

CD == <<"c", ".", "d">>

IpPublic == <<"1", ".", "1", ".", "1", ".", "1">>

IpZero == <<"0", ".", "0", ".", "0", ".", "0">>

IpLoop == <<"1", "2", "7", ".", "0", ".", "0", ".", "1">>

Ip6Zero == <<":", ":">>

Ip6Loop == <<":", ":", "1">>

SINKHOLE_IPS == {IpZero, IpLoop, Ip6Zero, Ip6Loop}

DOH_ENDPOINTS == <<"cloudflare-dns.com", "dns.google", "dns.quad9.net">>

RECORD_TYPES == <<"A", "AAAA", "CNAME">>

NumQueries == Len(DOH_ENDPOINTS) * Len(RECORD_TYPES)

EndpointOf(q) == DOH_ENDPOINTS[((q - 1) \div Len(RECORD_TYPES)) + 1]

TypeOf(q) == RECORD_TYPES[((q - 1) % Len(RECORD_TYPES)) + 1]

\* What _query_doh can get back: no usable body (None), a falsy JSON value,
\* a JSON value that is not an object, an object whose Status is no integer,
\* or a DNS-JSON object.
NoData == [kind |-> "none", Status |-> 0, Answer |-> <<>>, Authority |-> <<>>]

FalsyJson == [kind |-> "falsy", Status |-> 0, Answer |-> <<>>, Authority |-> <<>>]

NonObject == [kind |-> "nonobject", Status |-> 0, Answer |-> <<>>, Authority |-> <<>>]

BadStatus == [kind |-> "badstatus", Status |-> 0, Answer |-> <<>>, Authority |-> <<>>]

Json(status, answer, authority) ==
    [kind |-> "json", Status |-> status, Answer |-> answer, Authority |-> authority]

Rec(type, data) == [type |-> type, data |-> data]

SOA == [type |-> 6]

NS == [type |-> 2]

TXT == [type |-> 16]

\* the names of a CNAME chain, n0.x -> n1.x -> ...
Digits == <<"0", "1", "2", "3", "4", "5", "6", "7", "8", "9">>

Hop(i) == <<"n", Digits[i + 1], ".", "x">>

HopOf(key) == CHOOSE i \in 0..MaxHops : key = Hop(i)

IsHop(key) == \E i \in 0..MaxHops : key = Hop(i)

ChainNext(key) ==
    IF IsHop(key) /\ HopOf(key) < MaxHops THEN Hop(HopOf(key) + 1) ELSE Hop(0)

\* the first name of the chain as an endpoint may spell it
LoopBack == <<"N", "0", ".", "X">>

\* the other name of the two-name CNAME graph
Other(key) == IF key = AB THEN CD ELSE AB

\* spellings of a CNAME target as the endpoints return it
Spelling(name, e) ==
    CASE e = DOH_ENDPOINTS[1] -> name \o <<".">>
      [] e = DOH_ENDPOINTS[2] -> [i \in 1..Len(name) |->
                                    IF i = 1 THEN (IF name[1] = "a" THEN "A" ELSE
                                                   IF name[1] = "c" THEN "C" ELSE name[1])
                                    ELSE name[i]]
      [] OTHER -> name

\* The answers of one zone, by profile.
Profile(p, key, e, t) ==
    CASE p = "dead" -> NoData
      [] p = "nx" -> Json(3, <<>>, <<SOA>>)
      [] p = "servfail" -> Json(2, <<>>, <<TXT>>)
      [] p = "addr" ->
            IF e = DOH_ENDPOINTS[1] THEN NoData
            ELSE IF t = "A" THEN Json(0, <<Rec(1, IpPublic \o <<".">>), Rec(1, IpZero)>>, <<>>)
            ELSE Json(0, <<>>, <<SOA>>)
      [] p = "sink" ->
            IF t = "A" THEN Json(0, <<Rec(1, IpZero)>>, <<>>)
            ELSE IF t = "AAAA" THEN Json(0, <<Rec(28, <<" ">> \o Ip6Zero)>>, <<>>)
            ELSE Json(3, <<>>, <<>>)
      [] p = "auth" ->
            IF e = DOH_ENDPOINTS[1] THEN FalsyJson
            ELSE IF e = DOH_ENDPOINTS[2] THEN Json(3, <<Rec(1, <<" ">>)>>, <<SOA>>)
            ELSE Json(0, <<Rec(16, <<"x">>)>>, <<TXT, NS>>)
      [] p = "cname" -> Json(0, <<Rec(5, Spelling(Other(key), e))>>, <<>>)
      [] p = "cnameaddr" ->
            IF t = "A" THEN Json(0, <<Rec(5, Spelling(Other(key), e)), Rec(1, IpPublic)>>, <<>>)
            ELSE Json(0, <<>>, <<>>)
      [] p = "nonobject" ->
            IF e = DOH_ENDPOINTS[1] THEN Json(0, <<Rec(5, Other(key))>>, <<>>)
            ELSE NonObject
      [] p = "badstatus" -> BadStatus
      [] p = "chain" ->
            IF e = DOH_ENDPOINTS[1] /\ t = "CNAME"
            THEN Json(0, <<Rec(5, ChainNext(key))>>, <<>>)
            ELSE NoData
      [] p = "loop" ->
            IF e = DOH_ENDPOINTS[1] /\ t = "CNAME"
            THEN Json(0, <<Rec(5, LoopBack)>>, <<>>)
            ELSE NoData
      [] OTHER -> NoData

query_doh(endpoint, domain, record_type) ==
    IF domain \in DOMAIN net.zone
    THEN Profile(net.zone[domain], domain, endpoint, record_type)
    ELSE NoData

\* `if not data`
Truthy(data) == data.kind \notin {"none", "falsy"}

\* The origin that serves a URL does not tell the letter case of scheme and host.
NormParsed(p) == p.scheme \o SchemeSep \o Lower(p.netloc) \o p.path

NormUrl(url) == NormParsed(urlparse(url))

WebLookup(u) == IF u \in DOMAIN net.web THEN net.web[u] ELSE "fail"

HttpOutcome(url) == WebLookup(NormUrl(url))

\* requests.head / requests.get: raised a RequestException, or a status code
HeadOf(outcome) ==
    CASE outcome = "ok" -> [raised |-> FALSE, status_code |-> 200]
      [] outcome = "404" -> [raised |-> FALSE, status_code |-> 404]
      [] outcome = "405ok" -> [raised |-> FALSE, status_code |-> 405]
      [] outcome = "405fail" -> [raised |-> FALSE, status_code |-> 405]
      [] OTHER -> [raised |-> TRUE, status_code |-> 0]

GetOf(outcome) ==
    CASE outcome = "ok" -> [raised |-> FALSE, status_code |-> 200]
      [] outcome = "404" -> [raised |-> FALSE, status_code |-> 404]
      [] outcome = "405ok" -> [raised |-> FALSE, status_code |-> 200]
      [] OTHER -> [raised |-> TRUE, status_code |-> 0]

RequestsHead(url) == HeadOf(HttpOutcome(url))

RequestsGet(url) == GetOf(HttpOutcome(url))

(***************************************************************************)
(* HTTP prober.  Probe(url) is one responds(url) call: the requests it     *)
(* sends and what it returns.                                              *)
(***************************************************************************)
\* faulty variant: GET is also tried after a HEAD that failed
ProbeWith_RetryOnFailure(url, head, get) ==
    IF head.raised \/ head.status_code = 405
    THEN IF get.raised
         THEN [url |-> url, head |-> IF head.raised THEN "raised" ELSE "response",
               get |-> "raised", result |-> FALSE,
               sent |-> <<"HEAD", "GET">>, status |-> head.status_code]
         ELSE [url |-> url, head |-> IF head.raised THEN "raised" ELSE "response",
               get |-> "response", result |-> TRUE,
               sent |-> <<"HEAD", "GET">>, status |-> head.status_code]
    ELSE [url |-> url, head |-> "response", get |-> "none", result |-> TRUE,
          sent |-> <<"HEAD">>, status |-> head.status_code]

ProbeWith(url, head, get) ==
    IF head.raised
    THEN [url |-> url, head |-> "raised", get |-> "none", result |-> FALSE,
          sent |-> <<"HEAD">>, status |-> 0]
    ELSE IF head.status_code = 405
    THEN IF get.raised
         THEN [url |-> url, head |-> "response", get |-> "raised", result |-> FALSE,
               sent |-> <<"HEAD", "GET">>, status |-> head.status_code]
         ELSE [url |-> url, head |-> "response", get |-> "response", result |-> TRUE,
               sent |-> <<"HEAD", "GET">>, status |-> head.status_code]
    ELSE [url |-> url, head |-> "response", get |-> "none", result |-> TRUE,
          sent |-> <<"HEAD">>, status |-> head.status_code]

Probe(url) == ProbeWith(url, RequestsHead(url), RequestsGet(url))

responds(url) == Probe(url).result

\* any(responds(url) for url in urls): probes in order up to the first success
RECURSIVE AnyResponds(_, _)
AnyNext(urls, log, probe) ==
    IF probe.result
    THEN [result |-> TRUE, log |-> Append(log, probe)]
    ELSE AnyResponds(Tail(urls), Append(log, probe))

AnyResponds(urls, log) ==
    IF urls = <<>> THEN [result |-> FALSE, log |-> log]
    ELSE AnyNext(urls, log, Probe(Head(urls)))

(***************************************************************************)
(* Sinkhole classifier (ResolutionResult).                                 *)
(***************************************************************************)
ResolutionResult(addresses, has_authority, status) ==
    [addresses |-> addresses, has_authority |-> has_authority, status |-> status]

has_non_sinkhole(r) == \E address \in r.addresses : address \notin SINKHOLE_IPS

sinkhole_only(r) == r.addresses # {} /\ ~has_non_sinkhole(r)

\* faulty variant: sinkhole addresses do not count as presence
indicates_presence_NoSinkhole(r) == has_non_sinkhole(r)

indicates_presence(r) ==
    IF has_non_sinkhole(r) THEN TRUE
    ELSE IF sinkhole_only(r) THEN TRUE
    ELSE FALSE

(***************************************************************************)
(* DoH resolver.  An invocation of resolve_domain that sends queries is a  *)
(* frame: its key, next_visited, the accumulators, and its place in the    *)
(* loops (q: the endpoint/record-type pair, 1..9; a: 0 before the query is *)
(* sent, else the index of the answer record to handle next).              *)
(***************************************************************************)
\* line 111
GuardResult == ResolutionResult({}, FALSE, 2)

NewFrame(key, visited) ==
    [key |-> key, next_visited |-> visited \cup {key}, addresses |-> {},
     has_authority |-> FALSE, status_codes |-> <<>>, q |-> 1, a |-> 0]

\* faulty variant: the names on the current path are not checked
ResolveEnter_NoPathCheck(domain, visited, rcache) ==
    IF Lower(RStripDot(domain)) \in DOMAIN rcache
    THEN [kind |-> "cache", key |-> Lower(RStripDot(domain)),
          result |-> rcache[Lower(RStripDot(domain))]]
    ELSE IF Cardinality(visited) > 5
    THEN [kind |-> "guard", key |-> Lower(RStripDot(domain)), result |-> GuardResult]
    ELSE [kind |-> "query", key |-> Lower(RStripDot(domain)), result |-> GuardResult]

\* faulty variant: _RESOLUTION_CACHE is not consulted
ResolveEnter_NoCache(domain, visited, rcache) ==
    IF Lower(RStripDot(domain)) \in visited \/ Cardinality(visited) > 5
    THEN [kind |-> "guard", key |-> Lower(RStripDot(domain)), result |-> GuardResult]
    ELSE [kind |-> "query", key |-> Lower(RStripDot(domain)), result |-> GuardResult]

\* faulty variant: the depth cap lets one more hop through
ResolveEnter_CapOff(domain, visited, rcache) ==
    IF Lower(RStripDot(domain)) \in DOMAIN rcache
    THEN [kind |-> "cache", key |-> Lower(RStripDot(domain)),
          result |-> rcache[Lower(RStripDot(domain))]]
    ELSE IF Lower(RStripDot(domain)) \in visited \/ Cardinality(visited) > 6
    THEN [kind |-> "guard", key |-> Lower(RStripDot(domain)), result |-> GuardResult]
    ELSE [kind |-> "query", key |-> Lower(RStripDot(domain)), result |-> GuardResult]

\* faulty variant: a cache hit returns an empty result in place of the cached one
ResolveEnter_HitEmpty(domain, visited, rcache) ==
    IF Lower(RStripDot(domain)) \in DOMAIN rcache
    THEN [kind |-> "cache", key |-> Lower(RStripDot(domain)), result |-> GuardResult]
    ELSE IF Lower(RStripDot(domain)) \in visited \/ Cardinality(visited) > 5
    THEN [kind |-> "guard", key |-> Lower(RStripDot(domain)), result |-> GuardResult]
    ELSE [kind |-> "query", key |-> Lower(RStripDot(domain)), result |-> GuardResult]

\* resolve_domain up to the first query: a cache hit, the guard, or a new frame
ResolveEnter(domain, visited, rcache) ==
    LET key == Lower(RStripDot(domain))
    IN  IF key \in DOMAIN rcache
        THEN [kind |-> "cache", key |-> key, result |-> rcache[key]]
        ELSE IF key \in visited \/ Cardinality(visited) > 5
        THEN [kind |-> "guard", key |-> key, result |-> GuardResult]
        ELSE [kind |-> "query", key |-> key, result |-> GuardResult]

\* addresses.update(target_result.addresses); has_authority |= target's
Fold(f, target_result) ==
    [f EXCEPT !.addresses = @ \cup target_result.addresses,
              !.has_authority = @ \/ target_result.has_authority]

MinOf(seq) == CHOOSE m \in Chars(seq) : \A x \in Chars(seq) : m <= x

FrameResult(f) ==
    ResolutionResult(f.addresses, f.has_authority,
                     IF f.status_codes # <<>> THEN MinOf(f.status_codes) ELSE 2)

\* faulty variant: the Authority section is scanned whatever the Status
AuthorityScan_IgnoreStatus(f, data) ==
    IF ~f.has_authority
    THEN \E i \in 1..Len(data.Authority) : data.Authority[i].type \in {2, 6}
    ELSE f.has_authority

AuthorityScan(f, data) ==
    IF ~f.has_authority /\ data.Status # 3
    THEN \E i \in 1..Len(data.Authority) : data.Authority[i].type \in {2, 6}
    ELSE f.has_authority

Go(kind, frame, callee, dlog, rlog) ==
    [kind |-> kind, frame |-> frame, callee |-> callee, dlog |-> dlog, rlog |-> rlog]

\* faulty variant: a query without data ends the loops
OnData_StopOnFailure(f, data, sent, rlog) ==
    IF ~Truthy(data)
    THEN Go("next", [f EXCEPT !.q = NumQueries + 1], f, sent, rlog)
    ELSE IF data.kind # "json"
    THEN Go("raise", f, f, sent, rlog)
    ELSE Go("next", [f EXCEPT !.status_codes = Append(@, data.Status), !.a = 1],
            f, sent, rlog)

\* lines 120-124: the query is sent
OnData(f, data, sent, rlog) ==
    IF ~Truthy(data)
    THEN Go("next", [f EXCEPT !.q = @ + 1], f, sent, rlog)
    ELSE IF data.kind # "json"
    THEN Go("raise", f, f, sent, rlog)
    ELSE Go("next", [f EXCEPT !.status_codes = Append(@, data.Status), !.a = 1],
            f, sent, rlog)

\* line 136: resolve_domain(target, visited=next_visited), up to its first query
OnNested(f, enter, dlog, noted) ==
    IF enter.kind = "query"
    THEN Go("call", f, NewFrame(enter.key, f.next_visited), dlog, noted)
    ELSE Go("next", [Fold(f, enter.result) EXCEPT !.a = @ + 1], f, dlog, noted)

\* one entry of the history of invocations: the name, how it was answered
\* ("query": it sends queries; "cache", "guard": it returned result at once;
\* "done": the querying invocation returned result), the nesting depth and
\* the name of the invocation that called it (<<>>: is_entry_live)
\* onpath: the name was in visited when the invocation started
Entry(key, how, visited, parent, result) ==
    [key |-> key, how |-> how, depth |-> Cardinality(visited) + 1, parent |-> parent,
     result |-> result, onpath |-> key \in visited]

Noted(rlog, enter, visited, parent) ==
    Append(rlog, Entry(enter.key, enter.kind, visited, parent, enter.result))

OnEnter(f, enter, dlog, rlog) ==
    OnNested(f, enter, dlog, Noted(rlog, enter, f.next_visited, f.key))

\* lines 134-135
OnCname(f, rcache, target, dlog, rlog) ==
    IF target # <<>> /\ target \notin f.next_visited
    THEN OnEnter(f, ResolveEnter(target, f.next_visited, rcache), dlog, rlog)
    ELSE Go("next", [f EXCEPT !.a = @ + 1], f, dlog, rlog)

\* lines 127-139: one answer record
OnAnswer(f, rcache, ans_type, value, dlog, rlog) ==
    IF value = <<>>
    THEN Go("next", [f EXCEPT !.a = @ + 1], f, dlog, rlog)
    ELSE IF ans_type \in {1, 28}
    THEN Go("next", [f EXCEPT !.a = @ + 1, !.addresses = @ \cup {RStripDot(value)}],
            f, dlog, rlog)
    ELSE IF ans_type = 5
    THEN OnCname(f, rcache, RStripDot(value), dlog, rlog)
    ELSE Go("next", [f EXCEPT !.a = @ + 1], f, dlog, rlog)

\* One place of the loops of lines 118-146: the frame goes on ("next"),
\* makes a nested invocation that sends queries ("call"), or an exception
\* leaves resolve_domain ("raise").
StepWith(f, rcache, data, dlog, rlog) ==
    IF f.a = 0
    THEN OnData(f, data, Append(dlog, <<EndpointOf(f.q), TypeOf(f.q), f.key>>), rlog)
    ELSE IF f.a <= Len(data.Answer)
    THEN OnAnswer(f, rcache, data.Answer[f.a].type, Strip(data.Answer[f.a].data),
                  dlog, rlog)
    ELSE Go("next", [f EXCEPT !.has_authority = AuthorityScan(f, data),
                              !.q = @ + 1, !.a = 0], f, dlog, rlog)

StepFrame(f, rcache, dlog, rlog) ==
    StepWith(f, rcache, query_doh(EndpointOf(f.q), f.key, TypeOf(f.q)), dlog, rlog)

\* Runs the frame from its place in the loops up to its next nested
\* invocation that sends queries ("call"), its end ("return") or an
\* exception that resolve_domain does not catch ("raise").
RECURSIVE RunFrame(_, _, _, _)
RunOn(step, rcache) ==
    IF step.kind = "next"
    THEN RunFrame(step.frame, rcache, step.dlog, step.rlog)
    ELSE step

RunFrame(f, rcache, dlog, rlog) ==
    IF f.q > NumQueries
    THEN [kind |-> "return", frame |-> f, callee |-> f, dlog |-> dlog, rlog |-> rlog]
    ELSE RunOn(StepFrame(f, rcache, dlog, rlog), rcache)

Put(fn, key, value) ==
    [k \in DOMAIN fn \cup {key} |-> IF k = key THEN value ELSE fn[k]]

(***************************************************************************)
(* main: state after construction.                                         *)
(***************************************************************************)
NoFile == [exists |-> FALSE, text |-> <<>>]

File(text) == [exists |-> TRUE, text |-> text]

NoCall == [phase |-> "none", arg |-> <<>>, result |-> GuardResult,
           main |-> GuardResult, http0 |-> 0, doh0 |-> 0]

\* a text file: every line ended by a newline
RECURSIVE TextOf(_)
TextOf(lines) ==
    IF lines = <<>> THEN <<>> ELSE lines[1] \o <<NL>> \o TextOf(Tail(lines))

SeqsUpTo(S, n) == UNION {[1..k -> S] : k \in 0..n}

InitWith(lines, zones, webs) ==
    /\ source \in {NoFile} \cup {File(TextOf(ls)) : ls \in lines}
    /\ net \in [zone : zones, web : webs]
    /\ pc = "load"
    /\ raw_lines = <<>>
    /\ pos = 0
    /\ cleaned_lines = <<>>
    /\ removed = <<>>
    /\ skipped_checks = <<>>
    /\ cache = <<>>
    /\ resCache = <<>>
    /\ stack = <<>>
    /\ call = NoCall
    /\ output = NoFile
    /\ rc = <<>>
    /\ dohLog = <<>>
    /\ httpLog = <<>>
    /\ resolveLog = <<>>
    /\ liveLog = <<>>
    /\ runs = <<>>

(***************************************************************************)
(* main: load.                                                             *)
(***************************************************************************)
\* faulty variant: a missing file is read as an empty list
LoadMissing_AsEmpty ==
    /\ pc = "load"
    /\ ~source.exists
    /\ raw_lines' = <<>>
    /\ pc' = "loop"
    /\ UNCHANGED <<runs, source, net, pos, cleaned_lines, removed, skipped_checks, cache,
                   resCache, stack, call, output, rc, dohLog, httpLog, resolveLog,
                   liveLog>>

\* load_blocklist raises FileNotFoundError; main prints it and returns 1
LoadMissing ==
    /\ pc = "load"
    /\ ~source.exists
    /\ pc' = "failed"
    /\ rc' = <<1>>
    /\ UNCHANGED <<runs, source, net, raw_lines, pos, cleaned_lines, removed, skipped_checks,
                   cache, resCache, stack, call, output, dohLog, httpLog, resolveLog,
                   liveLog>>

LoadBlocklist ==
    /\ pc = "load"
    /\ source.exists
    /\ raw_lines' = SplitLines(source.text)
    /\ pc' = "loop"
    /\ UNCHANGED <<runs, source, net, pos, cleaned_lines, removed, skipped_checks, cache,
                   resCache, stack, call, output, rc, dohLog, httpLog, resolveLog,
                   liveLog>>

(***************************************************************************)
(* main: one iteration of the loop over raw_lines.                         *)
(***************************************************************************)
Raw == raw_lines[pos + 1]

Stripped == Strip(Raw)

IsInert(raw) == Strip(raw) = <<>> \/ StartsWith(Strip(raw), <<"#">>)

AtLine == pc = "loop" /\ pos < Len(raw_lines)

\* faulty variant: the trimmed text is kept in place of the raw line
KeepInert_Trimmed ==
    /\ AtLine
    /\ IsInert(Raw)
    /\ cleaned_lines' = Append(cleaned_lines, Strip(Raw))
    /\ pos' = pos + 1
    /\ UNCHANGED <<runs, source, net, pc, raw_lines, removed, skipped_checks, cache, resCache,
                   stack, call, output, rc, dohLog, httpLog, resolveLog, liveLog>>

KeepInert ==
    /\ AtLine
    /\ IsInert(Raw)
    /\ cleaned_lines' = Append(cleaned_lines, Raw)
    /\ pos' = pos + 1
    /\ UNCHANGED <<runs, source, net, pc, raw_lines, removed, skipped_checks, cache, resCache,
                   stack, call, output, rc, dohLog, httpLog, resolveLog, liveLog>>

\* faulty variant: a line that cannot be checked is dropped and reported removed
SkipUncheckable_Removed ==
    /\ AtLine
    /\ ~IsInert(Raw)
    /\ candidate_urls(Stripped) = <<>>
    /\ removed' = Append(removed, Stripped)
    /\ skipped_checks' = Append(skipped_checks, Stripped)
    /\ pos' = pos + 1
    /\ UNCHANGED <<runs, source, net, pc, raw_lines, cleaned_lines, cache, resCache, stack, call,
                   output, rc, dohLog, httpLog, resolveLog, liveLog>>

SkipUncheckable ==
    /\ AtLine
    /\ ~IsInert(Raw)
    /\ candidate_urls(Stripped) = <<>>
    /\ cleaned_lines' = Append(cleaned_lines, Raw)
    /\ skipped_checks' = Append(skipped_checks, Stripped)
    /\ pos' = pos + 1
    /\ UNCHANGED <<runs, source, net, pc, raw_lines, removed, cache, resCache, stack, call,
                   output, rc, dohLog, httpLog, resolveLog, liveLog>>

\* faulty variant: the entry is appended to cleaned_lines also when it is dead
Emit_KeepAll(stripped, is_live) ==
    /\ cleaned_lines' = Append(cleaned_lines, stripped)
    /\ removed' = IF is_live THEN removed ELSE Append(removed, stripped)
    /\ pos' = pos + 1

\* lines 231-234 and the step to the next line
Emit(stripped, is_live) ==
    /\ cleaned_lines' = IF is_live THEN Append(cleaned_lines, stripped) ELSE cleaned_lines
    /\ removed' = IF is_live THEN removed ELSE Append(removed, stripped)
    /\ pos' = pos + 1

UseCached ==
    /\ AtLine
    /\ ~IsInert(Raw)
    /\ candidate_urls(Stripped) # <<>>
    /\ Lower(Stripped) \in DOMAIN cache
    /\ Emit(Stripped, cache[Lower(Stripped)])
    /\ UNCHANGED <<runs, source, net, pc, raw_lines, skipped_checks, cache, resCache, stack,
                   call, output, rc, dohLog, httpLog, resolveLog, liveLog>>

\* is_entry_live returned is_live: cache[key] = is_live, then lines 231-234
Verdict(stripped, is_live, probed, kind) ==
    /\ cache' = Put(cache, Lower(stripped), is_live)
    /\ Emit(stripped, is_live)
    /\ httpLog' = probed
    /\ liveLog' = Append(liveLog,
            [entry |-> stripped, live |-> is_live, kind |-> kind,
             main |-> IF call.phase = "main" THEN call.result ELSE call.main,
             www |-> IF call.phase = "www" THEN call.result ELSE GuardResult,
             http0 |-> IF kind = "url" THEN Len(httpLog) ELSE call.http0,
             http1 |-> Len(probed),
             doh0 |-> IF kind = "url" THEN Len(dohLog) ELSE call.doh0,
             doh1 |-> Len(dohLog)])
    /\ call' = NoCall
    /\ pc' = "loop"

Probed(stripped, probe, kind) == Verdict(stripped, probe.result, probe.log, kind)

\* faulty variant: the cache is looked up with the entry as written
NeedsCheck_RawKey ==
    /\ AtLine
    /\ ~IsInert(Raw)
    /\ candidate_urls(Stripped) # <<>>
    /\ Stripped \notin DOMAIN cache

NeedsCheck ==
    /\ AtLine
    /\ ~IsInert(Raw)
    /\ candidate_urls(Stripped) # <<>>
    /\ Lower(Stripped) \notin DOMAIN cache

\* is_entry_live, full URL: any(responds(url) for url in urls)
CheckUrl ==
    /\ NeedsCheck
    /\ is_full_url(Stripped)
    /\ Probed(Stripped, AnyResponds(candidate_urls(Stripped), httpLog), "url")
    /\ UNCHANGED <<runs, source, net, raw_lines, skipped_checks, resCache, stack, output, rc,
                   dohLog, resolveLog>>

\* is_entry_live, bare domain: domain = entry.lower(); resolve_domain(domain)
CheckDomain ==
    /\ NeedsCheck
    /\ ~is_full_url(Stripped)
    /\ call' = [phase |-> "main", arg |-> Lower(Stripped), result |-> GuardResult,
                main |-> GuardResult, http0 |-> Len(httpLog), doh0 |-> Len(dohLog)]
    /\ pc' = "call"
    /\ UNCHANGED <<runs, source, net, raw_lines, pos, cleaned_lines, removed, skipped_checks,
                   cache, resCache, stack, output, rc, dohLog, httpLog, resolveLog,
                   liveLog>>

(***************************************************************************)
(* resolve_domain.                                                         *)
(***************************************************************************)
\* the invocation made by is_entry_live (visited is None)
ResolveCall ==
    /\ pc = "call"
    /\ LET enter == ResolveEnter(call.arg, {}, resCache)
       IN  /\ resolveLog' = Noted(resolveLog, enter, {}, <<>>)
           /\ IF enter.kind = "query"
              THEN /\ stack' = <<NewFrame(enter.key, {})>>
                   /\ pc' = "resolving"
                   /\ call' = call
              ELSE /\ stack' = stack
                   /\ pc' = "ret"
                   /\ call' = [call EXCEPT !.result = enter.result]
    /\ UNCHANGED <<runs, source, net, raw_lines, pos, cleaned_lines, removed, skipped_checks,
                   cache, resCache, output, rc, dohLog, httpLog, liveLog>>

\* lines 148-151 and the return to the caller
Return(n, f, result, rlog) ==
    /\ resCache' = Put(resCache, f.key, result)
    /\ resolveLog' = Append(rlog, Entry(f.key, "done", f.next_visited \ {f.key},
                                        IF n = 1 THEN <<>> ELSE stack[n - 1].key, result))
    /\ IF n = 1
       THEN /\ stack' = <<>>
            /\ call' = [call EXCEPT !.result = result]
            /\ pc' = "ret"
       ELSE /\ stack' = Append(SubSeq(stack, 1, n - 2),
                               [Fold(stack[n - 1], result) EXCEPT !.a = @ + 1])
            /\ UNCHANGED <<pc, call>>

Ran(n, run) ==
    /\ dohLog' = run.dlog
    /\ CASE run.kind = "raise" ->
            /\ pc' = "crashed"
            /\ stack' = <<>>
            /\ resolveLog' = run.rlog
            /\ UNCHANGED <<resCache, call>>
         [] run.kind = "call" ->
            /\ stack' = Append([stack EXCEPT ![n] = run.frame], run.callee)
            /\ resolveLog' = run.rlog
            /\ UNCHANGED <<pc, resCache, call>>
         [] run.kind = "return" ->
            Return(n, run.frame, FrameResult(run.frame), run.rlog)

\* the innermost invocation runs on, up to its next nested invocation or its end
ResolveStep ==
    /\ pc = "resolving"
    /\ Ran(Len(stack), RunFrame(stack[Len(stack)], resCache, dohLog, resolveLog))
    /\ UNCHANGED <<runs, source, net, raw_lines, pos, cleaned_lines, removed, skipped_checks,
                   cache, output, rc, httpLog, liveLog>>

(***************************************************************************)
(* is_entry_live after resolve_domain returned.                            *)
(***************************************************************************)
WwwDomain(domain) == WWW \o domain

WwwUrls(domain) == <<HTTP \o WwwDomain(domain), HTTPS \o WwwDomain(domain)>>

\* faulty variant: the result of the www. probes is not used
WwwFallback_ProbeIgnored(stripped, resolution, www) ==
    /\ httpLog' = www.log
    /\ call' = [call EXCEPT !.phase = "www", !.arg = WwwDomain(call.arg),
                            !.main = resolution, !.result = GuardResult]
    /\ pc' = "call"
    /\ UNCHANGED <<pos, cleaned_lines, removed, cache, liveLog>>

\* lines 174-179: the www. probes, then www_resolution = resolve_domain(www_domain)
WwwFallback(stripped, resolution, www) ==
    IF www.result
    THEN Verdict(stripped, TRUE, www.log, "www-probe")
    ELSE /\ httpLog' = www.log
         /\ call' = [call EXCEPT !.phase = "www", !.arg = WwwDomain(call.arg),
                                 !.main = resolution, !.result = GuardResult]
         /\ pc' = "call"
         /\ UNCHANGED <<pos, cleaned_lines, removed, cache, liveLog>>

\* lines 171-183 after resolution = resolve_domain(domain)
IsEntryLive(stripped, resolution) ==
    IF indicates_presence(resolution)
    THEN Verdict(stripped, TRUE, httpLog, "presence")
    ELSE IF resolution.has_authority
    THEN WwwFallback(stripped, resolution, AnyResponds(WwwUrls(call.arg), httpLog))
    ELSE Probed(stripped, AnyResponds(candidate_urls(stripped), httpLog), "probe")

DecideMain ==
    /\ pc = "ret"
    /\ call.phase = "main"
    /\ IsEntryLive(Stripped, call.result)
    /\ UNCHANGED <<runs, source, net, raw_lines, skipped_checks, resCache, stack, output, rc,
                   dohLog, resolveLog>>

\* faulty variant: after the www. checks failed the entry is dead at once
AfterWww_NoProbe(stripped, www_resolution) ==
    IF indicates_presence(www_resolution)
    THEN Verdict(stripped, TRUE, httpLog, "www-presence")
    ELSE Verdict(stripped, FALSE, httpLog, "www-then-probe")

\* lines 180-183 after www_resolution = resolve_domain(www_domain)
AfterWww(stripped, www_resolution) ==
    IF indicates_presence(www_resolution)
    THEN Verdict(stripped, TRUE, httpLog, "www-presence")
    ELSE Probed(stripped, AnyResponds(candidate_urls(stripped), httpLog), "www-then-probe")

DecideWww ==
    /\ pc = "ret"
    /\ call.phase = "www"
    /\ AfterWww(Stripped, call.result)
    /\ UNCHANGED <<runs, source, net, raw_lines, skipped_checks, resCache, stack, output, rc,
                   dohLog, resolveLog>>

(***************************************************************************)
(* main: write_cleaned and return.                                         *)
(***************************************************************************)
write_cleaned(lines) ==
    LET text == JoinLines(lines)
    IN  IF text # <<>> /\ text[Len(text)] # NL THEN text \o <<NL>> ELSE text

WriteCleaned ==
    /\ pc = "loop"
    /\ pos = Len(raw_lines)
    /\ output' = File(write_cleaned(cleaned_lines))
    /\ rc' = <<0>>
    /\ pc' = "done"
    /\ UNCHANGED <<runs, source, net, raw_lines, pos, cleaned_lines, removed, skipped_checks,
                   cache, resCache, stack, call, dohLog, httpLog, resolveLog, liveLog>>

Next ==
    \/ LoadMissing
    \/ LoadBlocklist
    \/ KeepInert
    \/ SkipUncheckable
    \/ UseCached
    \/ CheckUrl
    \/ CheckDomain
    \/ ResolveCall
    \/ ResolveStep
    \/ DecideMain
    \/ DecideWww
    \/ WriteCleaned

(***************************************************************************)
(* The inputs and the networks the model is run on.                        *)
(***************************************************************************)
WwwAB == WWW \o AB

UrlUpper == HTTP \o AB \o <<"/", "P">>

UrlLower == HTTP \o AB \o <<"/", "p">>

LinePool ==
    { <<>>,                              \* blank line
      <<" ">>,                           \* white space only
      <<" ", "#", "c">>,                 \* comment, indented
      AB,                                \* a.b
      <<" ", "A", ".", "b">>,            \* the same entry, other case, indented
      AB \o <<".">>,                     \* a.b. (the same domain, another entry)
      CD,                                \* c.d
      UrlUpper,                          \* http://a.b/P
      UrlLower \o <<" ">>,               \* http://a.b/p, trailing blank
      <<"/", "a", ".", "b">>,            \* rule-like text
      <<"a", "b", " ">>,                 \* no dot
      <<"a", "(", ".", "b">>,            \* a blocklisted character
      <<":", "/", "/", "a", ".", "b">> } \* URL-like, no scheme

Zone(ab, cd, www) ==
    [k \in {AB, CD, WwwAB} |-> IF k = AB THEN ab ELSE IF k = CD THEN cd ELSE www]

ZonePool ==
    {Zone(p, "dead", "dead") : p \in {"dead", "addr", "sink", "auth", "nonobject"}}
    \cup {Zone("auth", "addr", w) : w \in {"sink"}}

\* the URLs that answer; every other URL fails
WebPool ==
    { <<>>,
      HTTPS \o AB :> "ok" @@ UrlUpper :> "404",
      HTTP \o WwwAB :> "405ok" @@ UrlLower :> "405fail" }

Init == InitWith(SeqsUpTo(LinePool, MaxLines), ZonePool, WebPool)

Spec == Init /\ [][Next]_vars

(***************************************************************************)
(* Bare-domain inputs on a wider range of networks.  On these inputs the   *)
(* actions of NextNet are the only ones of Next that are ever enabled.     *)
(***************************************************************************)
DomainPool == {AB, AB \o <<".">>, CD, WwwAB}

NetZonePool ==
    {Zone(p, "dead", "dead") :
        p \in {"dead", "nx", "servfail", "addr", "sink", "auth", "badstatus"}}
    \cup {Zone(p, c, "dead") : p \in {"cname", "cnameaddr", "nonobject"},
                               c \in {"dead", "addr", "auth", "cname", "cnameaddr"}}
    \cup {Zone("auth", "dead", w) : w \in {"sink", "auth", "nx"}}
    \cup {Zone("cname", "auth", w) : w \in {"sink", "nx"}}

NetWebPool ==
    { <<>>,
      HTTPS \o AB :> "ok",
      HTTP \o WwwAB :> "405ok",
      HTTP \o WwwAB :> "405fail" @@ HTTPS \o WwwAB :> "404",
      HTTPS \o WwwAB :> "405fail" @@ HTTP \o AB :> "ok",
      HTTP \o CD :> "404" @@ HTTPS \o AB :> "405fail" }

InitNet ==
    /\ InitWith(SeqsUpTo(DomainPool, MaxLines), NetZonePool, NetWebPool)
    /\ source.exists

NextNet ==
    \/ LoadBlocklist
    \/ UseCached
    \/ CheckDomain
    \/ ResolveCall
    \/ ResolveStep
    \/ DecideMain
    \/ DecideWww
    \/ WriteCleaned

SpecNet == InitNet /\ [][NextNet]_vars

(***************************************************************************)
(* main run again on the same input and the same network: in a new process *)
(* (_RESOLUTION_CACHE starts empty), in the same process (the module-level *)
(* _RESOLUTION_CACHE keeps what the first run stored), or in a new process *)
(* on the same lines in another order.                                     *)
(***************************************************************************)
RunRecord(mode) ==
    [mode |-> mode, kept |-> cleaned_lines, removed |-> removed,
     skipped |-> skipped_checks, cache |-> cache, resCache |-> resCache]

\* main starts again; every local of main is new, the files stay
Restart(mode, text, rcache) ==
    /\ pc = "done"
    /\ runs = <<>>
    /\ runs' = <<RunRecord(mode)>>
    /\ source' = File(text)
    /\ resCache' = rcache
    /\ pc' = "load"
    /\ raw_lines' = <<>>
    /\ pos' = 0
    /\ cleaned_lines' = <<>>
    /\ removed' = <<>>
    /\ skipped_checks' = <<>>
    /\ cache' = <<>>
    /\ stack' = <<>>
    /\ call' = NoCall
    /\ rc' = <<>>
    /\ dohLog' = <<>>
    /\ httpLog' = <<>>
    /\ resolveLog' = <<>>
    /\ liveLog' = <<>>
    /\ UNCHANGED <<net, output>>

RerunFresh == Restart("fresh", source.text, <<>>)

RerunInherit == Restart("inherit", source.text, resCache)

Reordered(lines, p) == [i \in 1..Len(lines) |-> lines[p[i]]]

RerunReordered ==
    \E p \in Permutations(1..Len(raw_lines)) :
        /\ Reordered(raw_lines, p) # raw_lines
        /\ Restart("reordered", TextOf(Reordered(raw_lines, p)), <<>>)

TwiceLinePool ==
    { <<" ", "#", "c">>, AB, <<" ", "A", ".", "b">>, CD, UrlUpper, <<"/", "a", ".", "b">> }

TwiceZonePool ==
    {Zone(p, c, "dead") : p \in {"cname", "cnameaddr", "auth", "addr"},
                          c \in {"cname", "cnameaddr", "dead"}}
    \cup {Zone("auth", "dead", "sink")}

TwiceWebPool ==
    { <<>>, HTTPS \o AB :> "ok" @@ HTTP \o WwwAB :> "405ok" }

InitTwice == InitWith(SeqsUpTo(TwiceLinePool, MaxLines), TwiceZonePool, TwiceWebPool)

NextTwice ==
    \/ LoadMissing
    \/ LoadBlocklist
    \/ KeepInert
    \/ SkipUncheckable
    \/ UseCached
    \/ CheckUrl
    \/ CheckDomain
    \/ ResolveCall
    \/ ResolveStep
    \/ DecideMain
    \/ DecideWww
    \/ WriteCleaned
    \/ RerunFresh
    \/ RerunInherit
    \/ RerunReordered

SpecTwice == InitTwice /\ [][NextTwice]_vars

(***************************************************************************)
(* Bare-domain inputs on CNAME chains longer than the depth cap.           *)
(***************************************************************************)
\* n0.x -> ... -> n<len>.x, the last name answering by profile end
ChainZone(len, end) ==
    [k \in {Hop(i) : i \in 0..len} |-> IF k = Hop(len) THEN end ELSE "chain"]

ChainZonePool ==
    {ChainZone(len, end) : len \in {2, 5, 6, MaxHops}, end \in {"addr", "auth", "loop"}}

ChainLinePool == {Hop(0), Hop(2), Hop(6)}

ChainWebPool == { <<>>, HTTP \o Hop(0) :> "ok" }

InitChain ==
    /\ InitWith(SeqsUpTo(ChainLinePool, MaxLines), ChainZonePool, ChainWebPool)
    /\ source.exists

SpecChain == InitChain /\ [][NextNet]_vars

(***************************************************************************)
(* Properties.                                                             *)
(***************************************************************************)
Range(f) == {f[k] : k \in DOMAIN f}

Processed == SubSeq(raw_lines, 1, pos)

IsSkipped(raw) == ~IsInert(raw) /\ candidate_urls(Strip(raw)) = <<>>

NoDuplicates(seq) == \A i, j \in 1..Len(seq) : i < j => seq[i] # seq[j]

C1_InertKept ==
    SelectSeq(cleaned_lines, IsInert) = SelectSeq(Processed, IsInert)

C1_InertStep ==
    (AtLine /\ IsInert(Raw)) =>
        /\ cleaned_lines' = Append(cleaned_lines, Raw)
        /\ dohLog' = dohLog
        /\ httpLog' = httpLog
        /\ removed' = removed

\* C1: every processed line whose trimmed text is empty or begins with "#"
\* is in cleaned_lines as the raw line, these lines stand there in their
\* input order, and the step that processes such a line sends no DoH query
\* and no HTTP probe.
C1_InertLinesPreserved == [](C1_InertKept) /\ [][C1_InertStep]_vars

C1_Witness ==
    /\ pc = "done"
    /\ \E i \in 1..Len(cleaned_lines) :
          IsInert(cleaned_lines[i]) /\ Strip(cleaned_lines[i]) # cleaned_lines[i]
    /\ liveLog # <<>>

\* the lines main keeps and removes, from the input and the verdicts
RECURSIVE KeptOf(_)
KeptOf(lines) ==
    IF lines = <<>> THEN <<>>
    ELSE (IF IsInert(Head(lines)) \/ IsSkipped(Head(lines)) THEN <<Head(lines)>>
          ELSE IF cache[Lower(Strip(Head(lines)))] THEN <<Strip(Head(lines))>>
          ELSE <<>>) \o KeptOf(Tail(lines))

RECURSIVE RemovedOf(_)
RemovedOf(lines) ==
    IF lines = <<>> THEN <<>>
    ELSE (IF IsInert(Head(lines)) \/ IsSkipped(Head(lines)) THEN <<>>
          ELSE IF cache[Lower(Strip(Head(lines)))] THEN <<>>
          ELSE <<Strip(Head(lines))>>) \o RemovedOf(Tail(lines))

\* the list main hands to write_cleaned is the input without its dead lines
KeptListIsInputMinusDead ==
    (pc = "done") => cleaned_lines = KeptOf(raw_lines) /\ removed = RemovedOf(raw_lines)

\* C2: the output main writes is the input with exactly the dead checkable
\* lines deleted (inert and skipped lines raw, live lines trimmed, input
\* order), and removed lists exactly the trimmed dead lines in input order.
C2_OutputIsInputMinusDead ==
    (pc = "done") =>
        /\ output.exists
        /\ SplitLines(output.text) = KeptOf(raw_lines)
        /\ removed = RemovedOf(raw_lines)

\* C3: every (endpoint, record type, domain) query is sent at most once and
\* for a normalized domain; at most one resolve_domain invocation per domain
\* sends queries; every resolve of a domain after that invocation's end is
\* answered from the cache.
C3_QueriedAtMostOnce ==
    /\ NoDuplicates(dohLog)
    /\ \A i \in 1..Len(dohLog) : Lower(RStripDot(dohLog[i][3])) = dohLog[i][3]
    /\ \A i, j \in 1..Len(resolveLog) :
          (i < j /\ resolveLog[i].key = resolveLog[j].key) =>
              /\ ~(resolveLog[i].how = "query" /\ resolveLog[j].how = "query")
              /\ resolveLog[i].how = "done" => resolveLog[j].how = "cache"

C3_Witness ==
    /\ \E i, j \in 1..Len(resolveLog) :
          /\ i < j
          /\ resolveLog[i].key = resolveLog[j].key
          /\ resolveLog[i].how = "done"
          /\ resolveLog[j].how = "cache"
          /\ resolveLog[j].depth = 1
    /\ \E i \in 1..Len(resolveLog) : resolveLog[i].how = "guard"

\* C4: a resolution indicates presence iff its address set is non-empty;
\* a bare-domain entry whose resolution has an address, also when every
\* address is a sinkhole address, is live and kept, and is_entry_live sends
\* no HTTP probe for it.
C4_AnyAddressIsLive ==
    /\ \A k \in DOMAIN resCache :
          indicates_presence(resCache[k]) <=> resCache[k].addresses # {}
    /\ \A i \in 1..Len(liveLog) :
          (liveLog[i].kind # "url" /\ liveLog[i].main.addresses # {}) =>
              /\ liveLog[i].live
              /\ liveLog[i].http1 = liveLog[i].http0
              /\ liveLog[i].entry \in Range(cleaned_lines)
              /\ liveLog[i].entry \notin Range(removed)

C4_Witness ==
    \E i \in 1..Len(liveLog) :
        /\ liveLog[i].kind # "url"
        /\ liveLog[i].main.addresses # {}
        /\ liveLog[i].main.addresses \subseteq SINKHOLE_IPS
        /\ liveLog[i].live

WwwResponds(entry) ==
    responds(HTTP \o WWW \o Lower(entry)) \/ responds(HTTPS \o WWW \o Lower(entry))

\* C5: a bare-domain entry whose resolution has no address but authority is
\* live whenever http://www.<domain> or https://www.<domain> responds.
C5_AuthorityWwwProbeIsLive ==
    \A i \in 1..Len(liveLog) :
        (/\ liveLog[i].kind # "url"
         /\ liveLog[i].main.addresses = {}
         /\ liveLog[i].main.has_authority
         /\ WwwResponds(liveLog[i].entry)) => liveLog[i].live

C5_Witness ==
    \E i \in 1..Len(liveLog) :
        /\ liveLog[i].kind # "url"
        /\ liveLog[i].main.addresses = {}
        /\ liveLog[i].main.has_authority
        /\ WwwResponds(liveLog[i].entry)
        /\ \A q \in 1..NumQueries :
              ~Truthy(query_doh(EndpointOf(q), WWW \o Lower(liveLog[i].entry), TypeOf(q)))
        /\ ~responds(HTTP \o liveLog[i].entry)
        /\ ~responds(HTTPS \o liveLog[i].entry)
        /\ liveLog[i].live

\* what the network answers for name k holds no A/AAAA answer and no NS/SOA
\* authority record, and its CNAME answers all name t
OnlyCnameTo(k, t) ==
    /\ \A q \in 1..NumQueries :
          /\ query_doh(EndpointOf(q), k, TypeOf(q)).kind \in {"none", "falsy", "json"}
          /\ \A r \in Range(query_doh(EndpointOf(q), k, TypeOf(q)).Answer) :
                r.type = 5 /\ Lower(RStripDot(Strip(r.data))) = t
          /\ \A r \in Range(query_doh(EndpointOf(q), k, TypeOf(q)).Authority) :
                r.type \notin {2, 6}
    /\ \E q \in 1..NumQueries : query_doh(EndpointOf(q), k, TypeOf(q)).Answer # <<>>

BareCycle(a, b) == a # b /\ OnlyCnameTo(a, b) /\ OnlyCnameTo(b, a)

EmptyNoAuthority(r) == r.addresses = {} /\ ~r.has_authority

C6_CycleResult ==
    \A a, b \in {AB, CD} :
        BareCycle(a, b) =>
            /\ a \in DOMAIN resCache => EmptyNoAuthority(resCache[a])
            /\ (pc = "ret" /\ Lower(RStripDot(call.arg)) = a) => EmptyNoAuthority(call.result)
            /\ Len(stack) <= 2

\* the names of the CNAME graph: the zones and the targets they name
GraphNames ==
    DOMAIN net.zone
    \cup {Lower(RStripDot(Strip(r.data))) :
            r \in UNION {Range(query_doh(EndpointOf(q), k, TypeOf(q)).Answer) :
                            q \in 1..NumQueries, k \in DOMAIN net.zone}}

Unresolved == (GraphNames \cup {Lower(RStripDot(call.arg))}) \ DOMAIN resCache

\* falls by one with every nested invocation and with every return
Variant == 2 * Cardinality(Unresolved) - Len(stack)

C6_Progress ==
    (pc = "resolving") =>
        /\ pc' \in {"resolving", "ret", "crashed"}
        /\ pc' = "resolving" => Variant' < Variant

\* C6: resolve_domain terminates whatever the CNAME graph: while the call
\* made by is_entry_live runs, every step lowers a measure that is never
\* negative, and the nesting never exceeds the number of unresolved names;
\* on a two-name cycle without address and authority records, the result
\* for either name has no address and has_authority = false.
C6_ResolveTerminates ==
    /\ [](C6_CycleResult /\ Variant >= 0 /\ (pc = "resolving" => stack # <<>>))
    /\ [][C6_Progress]_vars

C6_Witness ==
    /\ BareCycle(AB, CD)
    /\ pc = "done"
    /\ {AB, CD} \subseteq DOMAIN resCache
    /\ \E i \in 1..Len(resolveLog) : resolveLog[i].how = "guard" /\ resolveLog[i].depth = 3

C7_SkippedKept ==
    /\ SelectSeq(cleaned_lines, IsSkipped) = SelectSeq(Processed, IsSkipped)
    /\ Len(skipped_checks) = Len(SelectSeq(Processed, IsSkipped))
    /\ \A i \in 1..Len(skipped_checks) :
          /\ skipped_checks[i] = Strip(SelectSeq(Processed, IsSkipped)[i])
          /\ skipped_checks[i] \notin Range(removed)
          /\ Lower(skipped_checks[i]) \notin DOMAIN cache

C7_SkipStep ==
    (AtLine /\ IsSkipped(Raw)) =>
        /\ cleaned_lines' = Append(cleaned_lines, Raw)
        /\ skipped_checks' = Append(skipped_checks, Strip(Raw))
        /\ removed' = removed
        /\ cache' = cache
        /\ dohLog' = dohLog
        /\ httpLog' = httpLog

\* C7: every processed non-empty, non-comment line without candidate URLs is
\* in cleaned_lines as the raw line and in skipped_checks as its trimmed
\* text, is not in removed and not a key of the entry cache, and the step
\* that processes it sends no DoH query and no HTTP probe.
C7_SkippedLinesPreserved == [](C7_SkippedKept) /\ [][C7_SkipStep]_vars

C7_Witness ==
    /\ pc = "done"
    /\ \E i \in 1..Len(raw_lines) : IsSkipped(raw_lines[i]) /\ Strip(raw_lines[i]) # raw_lines[i]
    /\ cache # <<>>

\* C8: responds(url) is true whenever the HEAD request received a response
\* and false only when no response was received.
C8_AnyResponseResponds ==
    \A i \in 1..Len(httpLog) : httpLog[i].result <=> (httpLog[i].head = "response")

\* C9: once the input is loaded, main processes every line and writes the
\* output, whatever the DoH queries and the HTTP probes return: no exception
\* leaves is_entry_live.
C9_RunCompletes == pc # "crashed"

\* C10: when the source file is absent, main returns a non-zero status, sends
\* no DoH query and no HTTP probe, and never writes the output file.
C10_MissingSourceFails ==
    ~source.exists =>
        /\ pc \in {"load", "failed"}
        /\ (pc = "failed") <=> (rc # <<>>)
        /\ rc # <<>> => rc[1] # 0
        /\ dohLog = <<>>
        /\ httpLog = <<>>
        /\ ~output.exists

C10_Witness == ~source.exists /\ pc = "failed" /\ rc = <<1>>

SecondRunDone(mode) == pc = "done" /\ runs # <<>> /\ runs[1].mode = mode

SameReport ==
    /\ cleaned_lines = runs[1].kept
    /\ removed = runs[1].removed
    /\ skipped_checks = runs[1].skipped

\* C11: a second run of main on the same input and the same network, in a
\* new process or in the same process with the resolution cache the first
\* run filled, ends with the same kept, removed and skipped sequences.
C11_SecondRunSameReport ==
    (SecondRunDone("fresh") \/ SecondRunDone("inherit")) => SameReport

C11_Witness ==
    /\ SecondRunDone("inherit")
    /\ dohLog = <<>>
    /\ \E i \in 1..Len(resolveLog) : resolveLog[i].how = "cache" /\ resolveLog[i].depth = 1
    /\ removed # <<>>
    /\ \E i \in 1..Len(liveLog) : liveLog[i].kind = "presence"

\* C12: with the network fixed, after a run on the same lines in another
\* order every entry has the verdict it had, and every domain the cached
\* resolution it had.
C12_VerdictsIndependentOfOrder ==
    SecondRunDone("reordered") =>
        /\ cache = runs[1].cache
        /\ resCache = runs[1].resCache

\* the responds calls made during the i-th is_entry_live call
ProbesOf(i) == {httpLog[j].url : j \in (liveLog[i].http0 + 1)..liveLog[i].http1}

OrigProbed(i) == ProbesOf(i) \cap Range(candidate_urls(liveLog[i].entry)) # {}

OrigResponds(entry) == \E u \in Range(candidate_urls(entry)) : responds(u)

NoPresence(i) == liveLog[i].kind # "url" /\ ~indicates_presence(liveLog[i].main)

WwwEvidence(i) == WwwResponds(liveLog[i].entry) \/ indicates_presence(liveLog[i].www)

\* C13 as stated: the three branches for a bare domain exclude each other:
\* with authority and no presence the verdict is live iff a www. probe
\* succeeds or the www. resolution indicates presence, and the original URLs
\* are probed only when the resolution has neither presence nor authority.
C13_BranchesExclusive ==
    \A i \in 1..Len(liveLog) :
        /\ (NoPresence(i) /\ liveLog[i].main.has_authority) =>
              (liveLog[i].live <=> WwwEvidence(i))
        /\ (liveLog[i].kind # "url" /\ OrigProbed(i)) =>
              (NoPresence(i) /\ ~liveLog[i].main.has_authority)

\* C13 amended: the fallbacks form a chain.  With authority and no presence
\* the verdict is live iff a www. probe succeeds, or the www. resolution
\* indicates presence, or an original candidate URL responds; the original
\* URLs are probed exactly when the resolution does not indicate presence
\* and, if it has authority, neither www. check succeeded; without presence
\* and authority the verdict is live iff an original URL responds, and no
\* www. URL is probed.
C13_FallbackChain ==
    \A i \in 1..Len(liveLog) :
        /\ (NoPresence(i) /\ liveLog[i].main.has_authority) =>
              (liveLog[i].live <=> (WwwEvidence(i) \/ OrigResponds(liveLog[i].entry)))
        /\ (NoPresence(i) /\ ~liveLog[i].main.has_authority) =>
              /\ liveLog[i].live <=> OrigResponds(liveLog[i].entry)
              /\ ProbesOf(i) \subseteq Range(candidate_urls(liveLog[i].entry))
        /\ liveLog[i].kind # "url" =>
              (OrigProbed(i) <=>
                  /\ NoPresence(i)
                  /\ liveLog[i].main.has_authority => ~WwwEvidence(i))

C13_Witness ==
    \E i \in 1..Len(liveLog) :
        /\ NoPresence(i)
        /\ liveLog[i].main.has_authority
        /\ ~WwwEvidence(i)
        /\ OrigProbed(i)
        /\ liveLog[i].live

\* the entry contains "://" and parses with a scheme and a host
IsUrlEntry(entry) == Contains(entry, SchemeSep) /\ candidate_urls(entry) = <<entry>>

C14_UrlVerdict ==
    \A i \in 1..Len(liveLog) :
        IsUrlEntry(liveLog[i].entry) =>
            /\ liveLog[i].live <=> responds(liveLog[i].entry)
            /\ liveLog[i].http1 = liveLog[i].http0 + 1
            /\ httpLog[liveLog[i].http1].url = liveLog[i].entry
            /\ httpLog[liveLog[i].http1].result = liveLog[i].live
            /\ liveLog[i].doh1 = liveLog[i].doh0

C14_UrlStep ==
    (NeedsCheck /\ IsUrlEntry(Stripped)) =>
        /\ pc' = "loop"
        /\ pos' = pos + 1
        /\ dohLog' = dohLog
        /\ resCache' = resCache
        /\ resolveLog' = resolveLog

\* C14: for an entry that is a full URL, is_entry_live returns true iff
\* responds is true for the entry itself, its only candidate; the check
\* sends no DoH query and leaves the resolution cache as it was.
C14_FullUrlProbedOnly == [](C14_UrlVerdict) /\ [][C14_UrlStep]_vars

C14_Witness ==
    /\ \E i \in 1..Len(liveLog) :
          /\ IsUrlEntry(liveLog[i].entry)
          /\ liveLog[i].live
          /\ httpLog[liveLog[i].http1].status = 404
    /\ resCache # <<>>

\* what the nine queries for name k bring back, and those that bring data
QueriesOf(k) == {query_doh(EndpointOf(q), k, TypeOf(q)) : q \in 1..NumQueries}

Successful(k) == {d \in QueriesOf(k) : Truthy(d)}

AnswersOf(k) == UNION {Range(d.Answer) : d \in Successful(k)}

OwnAddresses(k) ==
    {RStripDot(Strip(r.data)) : r \in {x \in AnswersOf(k) : x.type \in {1, 28} /\ Strip(x.data) # <<>>}}

OwnAuthority(k) ==
    \E d \in Successful(k) : d.Status # 3 /\ \E r \in Range(d.Authority) : r.type \in {2, 6}

OwnStatus(k) ==
    IF Successful(k) = {} THEN 2
    ELSE CHOOSE m \in {d.Status : d \in Successful(k)} :
            \A d \in Successful(k) : m <= d.Status

NoCname(k) == \A r \in AnswersOf(k) : r.type # 5

AllQueriesSent(k) ==
    \A q \in 1..NumQueries : <<EndpointOf(q), TypeOf(q), k>> \in Range(dohLog)

\* C15: a DoH query that fails contributes nothing and does not stop the
\* other queries: every resolved domain was asked all nine queries, its
\* status is the least Status of the queries that brought data (2 if none
\* did), its addresses and has_authority come from those queries (and, with
\* CNAME answers, from the targets followed), and a domain whose queries all
\* fail is cached with no address, has_authority = false and status 2.
C15_FailedQueriesContributeNothing ==
    \A k \in DOMAIN resCache :
        /\ AllQueriesSent(k)
        /\ resCache[k].status = OwnStatus(k)
        /\ OwnAddresses(k) \subseteq resCache[k].addresses
        /\ NoCname(k) => resCache[k] = ResolutionResult(OwnAddresses(k), OwnAuthority(k),
                                                        OwnStatus(k))
        /\ Successful(k) = {} => resCache[k] = ResolutionResult({}, FALSE, 2)

C15_Witness ==
    /\ \E k \in DOMAIN resCache :
          /\ Successful(k) # {}
          /\ Successful(k) # QueriesOf(k)
          /\ resCache[k].addresses # {}
          /\ resCache[k].has_authority
    /\ \E k \in DOMAIN resCache : Successful(k) = {}

\* the invocations that returned to the invocation for name k before place i
\* of the history: the CNAME targets it followed
FollowedBy(k, i) ==
    {j \in 1..(i - 1) : /\ resolveLog[j].parent = k
                        /\ resolveLog[j].how \in {"cache", "guard", "done"}}

\* every query for k that brought data has Status 3, and no CNAME answer
AllNxdomain(k) ==
    /\ Successful(k) # {}
    /\ \A d \in Successful(k) : d.Status = 3
    /\ NoCname(k)

WwwKinds == {"www-probe", "www-presence", "www-then-probe"}

\* C16: has_authority of a resolved domain is true iff a query for it that
\* brought data with Status other than 3 holds an NS or SOA record in its
\* Authority section, or a CNAME target that was followed returned
\* has_authority = true; a domain whose answered queries all have Status 3
\* and no CNAME answer has has_authority = false, whatever the Authority
\* sections hold, and its entry never goes through the www. fallback.
C16_AuthorityOrigin ==
    /\ \A i \in 1..Len(resolveLog) :
          resolveLog[i].how = "done" =>
              (resolveLog[i].result.has_authority <=>
                  \/ OwnAuthority(resolveLog[i].key)
                  \/ \E j \in FollowedBy(resolveLog[i].key, i) :
                        resolveLog[j].result.has_authority)
    /\ \A k \in DOMAIN resCache : AllNxdomain(k) => ~resCache[k].has_authority
    /\ \A i \in 1..Len(liveLog) :
          (liveLog[i].kind # "url" /\ AllNxdomain(Lower(RStripDot(liveLog[i].entry)))) =>
              /\ ~liveLog[i].main.has_authority
              /\ liveLog[i].kind \notin WwwKinds
              /\ ProbesOf(i) \subseteq Range(candidate_urls(liveLog[i].entry))

C16_Witness ==
    /\ \E i \in 1..Len(resolveLog) :
          /\ resolveLog[i].how = "done"
          /\ resolveLog[i].result.has_authority
          /\ ~OwnAuthority(resolveLog[i].key)
    /\ \E i \in 1..Len(liveLog) :
          /\ AllNxdomain(Lower(RStripDot(liveLog[i].entry)))
          /\ \E r \in UNION {Range(d.Authority) : d \in Successful(Lower(liveLog[i].entry))} :
                r.type = 6
          /\ liveLog[i].kind = "probe"

\* the active invocations are for distinct names, each knows the names above
\* it as its path, and there are at most six of them
C17_PathAndDepth ==
    /\ Len(stack) <= 6
    /\ \A i \in 1..Len(stack) :
          stack[i].next_visited = {stack[j].key : j \in 1..i}
    /\ \A i, j \in 1..Len(stack) : i < j => stack[i].key # stack[j].key

\* an invocation for a name on the path, or below more than five hops, is
\* refused with the empty result; an invocation that sends queries is neither
C17_GuardEntries ==
    \A i \in 1..Len(resolveLog) :
        /\ (resolveLog[i].onpath \/ resolveLog[i].depth > 6) =>
              /\ resolveLog[i].how \in {"cache", "guard"}
              /\ resolveLog[i].how = "guard" =>
                    resolveLog[i].result = ResolutionResult({}, FALSE, 2)
        /\ resolveLog[i].how = "guard" => (resolveLog[i].onpath \/ resolveLog[i].depth > 6)

\* what the cache holds was returned by an invocation that sent its queries
C17_CacheFromQueries ==
    \A k \in DOMAIN resCache :
        /\ AllQueriesSent(k)
        /\ \E i \in 1..Len(resolveLog) :
              /\ resolveLog[i].key = k
              /\ resolveLog[i].how = "done"
              /\ resolveLog[i].result = resCache[k]

\* the queries of a step are for the name of the innermost invocation, and
\* the cache changes only where an invocation that sent queries returns
C17_Step ==
    /\ \A i \in (Len(dohLog) + 1)..Len(dohLog') :
          stack # <<>> /\ dohLog'[i][3] = stack[Len(stack)].key
    /\ resCache' # resCache =>
          /\ stack # <<>>
          /\ resCache' = Put(resCache, stack[Len(stack)].key,
                             resolveLog'[Len(resolveLog')].result)
          /\ resolveLog'[Len(resolveLog')].how = "done"
          /\ resolveLog'[Len(resolveLog')].key = stack[Len(stack)].key

HeadGot405(url) == ~RequestsHead(url).raised /\ RequestsHead(url).status_code = 405

\* C18: every responds call sends one HEAD request first and at most one
\* GET request after it, the GET exactly when the HEAD was answered with
\* status 405; no request is sent again after a failure, so a call sends at
\* most two requests.
C18_OneHeadAtMostOneGet ==
    \A i \in 1..Len(httpLog) :
        /\ Len(httpLog[i].sent) \in {1, 2}
        /\ httpLog[i].sent[1] = "HEAD"
        /\ Len(httpLog[i].sent) = 2 <=> HeadGot405(httpLog[i].url)
        /\ Len(httpLog[i].sent) = 2 => httpLog[i].sent[2] = "GET"
        /\ RequestsHead(httpLog[i].url).raised => httpLog[i].sent = <<"HEAD">>

C18_Witness ==
    /\ \E i \in 1..Len(httpLog) :
          httpLog[i].sent = <<"HEAD", "GET">> /\ httpLog[i].get = "raised"
    /\ \E i \in 1..Len(httpLog) :
          httpLog[i].sent = <<"HEAD">> /\ httpLog[i].head = "raised"

IsCheckable(line) == ~IsInert(line) /\ ~IsSkipped(line)

KeyOf(line) == Lower(Strip(line))

\* the checkable lines of seq whose entry key is k
WithKey(seq, k) == SelectSeq(seq, LAMBDA x : IsCheckable(x) /\ KeyOf(x) = k)

WriteOnce(f, g) == \A k \in DOMAIN f : k \in DOMAIN g /\ g[k] = f[k]

C19_Step == WriteOnce(cache, cache') /\ WriteOnce(resCache, resCache')

C19_OncePerKey ==
    /\ \A i, j \in 1..Len(liveLog) :
          i < j => KeyOf(liveLog[i].entry) # KeyOf(liveLog[j].entry)
    /\ \A i \in 1..Len(liveLog) :
          /\ KeyOf(liveLog[i].entry) \in DOMAIN cache
          /\ cache[KeyOf(liveLog[i].entry)] = liveLog[i].live
    /\ Cardinality(DOMAIN cache) = Len(liveLog)
    /\ \A k \in DOMAIN cache :
          IF cache[k]
          THEN /\ Len(WithKey(cleaned_lines, k)) = Len(WithKey(Processed, k))
               /\ WithKey(removed, k) = <<>>
          ELSE /\ Len(WithKey(removed, k)) = Len(WithKey(Processed, k))
               /\ WithKey(cleaned_lines, k) = <<>>

\* C19: within a run a value stored in _RESOLUTION_CACHE or in the entry
\* cache is never replaced or removed; is_entry_live is called at most once
\* per entry key, and the lines with the same key (up to letter case and
\* surrounding white space) are all kept or all removed.
C19_CachesWriteOnce == [](C19_OncePerKey) /\ [][C19_Step]_vars

C19_Witness ==
    /\ pc = "done"
    /\ Len(raw_lines) = 2
    /\ raw_lines[1] # raw_lines[2]
    /\ IsCheckable(raw_lines[1])
    /\ KeyOf(raw_lines[1]) = KeyOf(raw_lines[2])
    /\ Len(removed) = 2
    /\ Len(liveLog) = 1
    /\ resCache # <<>>

C20_Partition ==
    /\ Len(cleaned_lines) + Len(removed) = pos
    /\ pos <= Len(raw_lines)
    /\ \A i \in 1..Len(skipped_checks) :
          \E j \in 1..Len(cleaned_lines) :
              IsSkipped(cleaned_lines[j]) /\ Strip(cleaned_lines[j]) = skipped_checks[i]
    /\ \A i \in 1..Len(removed) : IsCheckable(removed[i])
    /\ \A i \in 1..pos :
          ~IsCheckable(raw_lines[i]) => Strip(raw_lines[i]) \notin Range(removed)
    /\ Cardinality(DOMAIN cache) <= Len(SelectSeq(Processed, IsCheckable))

\* a step that processes a line appends it, raw or trimmed, to one of the two
\* lists and leaves the other; no other step changes either list
C20_Step ==
    /\ pos' \in {pos, pos + 1}
    /\ pos' = pos => (cleaned_lines' = cleaned_lines /\ removed' = removed)
    /\ pos' = pos + 1 =>
          \/ /\ cleaned_lines' \in {Append(cleaned_lines, Raw), Append(cleaned_lines, Stripped)}
             /\ removed' = removed
          \/ /\ removed' = Append(removed, Stripped)
             /\ cleaned_lines' = cleaned_lines

\* C20: after every processed prefix of the input each processed line is in
\* exactly one of cleaned_lines and removed, so their lengths add up to the
\* number of lines processed; every skipped entry is in cleaned_lines, no
\* inert or skipped line is in removed, and the entry cache has no more keys
\* than checkable lines were processed.
C20_LinesPartitioned == [](C20_Partition) /\ [][C20_Step]_vars

C20_Witness ==
    /\ pc = "done"
    /\ pos = 2
    /\ skipped_checks # <<>>
    /\ removed # <<>>
    /\ cache # <<>>

====
